---- MODULE Spec2Model ----
(***************************************************************************)
(* Model of telegrambot.py: the sliding-window rate limiter                *)
(* (is_rate_limited), the /generate command parser                         *)
(* (parse_generate_command) and the three message handlers                 *)
(* (telegram_generate_image, handle_user_photo, handle_user_message) with  *)
(* the two process-wide maps user_request_times and user_conversations.    *)
(*                                                                         *)
(* One handler runs at a time (serialized handling).  A handler is cut     *)
(* into steps at its calls to the outside world (clock, backend,           *)
(* transport), so that the order of those calls can be observed.           *)
(*                                                                         *)
(* Environment assumptions: time.time() is non-decreasing; a backend call  *)
(* returns a usable result, an unusable result, or raises; a transport     *)
(* call placed inside a try block may raise; the bot.reply_to calls placed *)
(* outside every try block (throttling reply, usage reply, acknowledgment, *)
(* the reply of the except clause) return.                                 *)
(***************************************************************************)
EXTENDS Integers, Sequences, FiniteSets, TLC

\* ---------------------------------------------------------------- constants
RATE_LIMIT == 5

TIME_WINDOW == 60

MAX_HISTORY == 10

\* count > CLAMP_ABOVE is replaced by CLAMP_TO (telegrambot.py lines 81-82)
CLAMP_ABOVE == 11

CLAMP_TO == 10

\* ------------------------------------------------------------------- bounds
\* number of inbound events handled in one behaviour, any user
MaxEvents == 3

\* number of inbound events handled in one behaviour of the specification
\* with fairness
MaxEventsFair == 2

\* number of inbound events handled in one behaviour of the one-user
\* specification
MaxEventsOneUser == 7

\* number of clock advances in one behaviour
MaxTicks == 2

\* length of the argument text of a /generate command (characters after the
\* command name) in the parser specification
MaxLen == 5
MaxRaceChecks == 6

\* ------------------------------------------------------------------- inputs
Users == {1, 2}

\* amounts by which the clock advances between two readings
Deltas == {TIME_WINDOW \div 2, TIME_WINDOW + 1}

\* the characters of a message text; "/generate" is the command name, taken
\* as one non-blank symbol
Space == " "

Digits == <<"0", "1", "2", "3", "4", "5", "6", "7", "8", "9">>

Alphabet == {Space, "-", "0", "1", "2", "x"}

\* ------------------------------------------------------------------ helpers
\* s[-n:]
LastN(s, n) == IF Len(s) <= n THEN s ELSE SubSeq(s, Len(s) - n + 1, Len(s))

\* s[k:] with a 0-based k, as in parts[1:] and parts[2:]
From(s, k) == IF k >= Len(s) THEN <<>> ELSE SubSeq(s, k + 1, Len(s))

\* ' '.join(tokens): the tokens separated by single blanks
RECURSIVE Flatten(_)
Flatten(toks) ==
    IF toks = <<>> THEN <<>>
    ELSE IF Len(toks) = 1 THEN toks[1]
    ELSE toks[1] \o <<Space>> \o Flatten(Tail(toks))

\* ------------------------------------------------- parse_generate_command
\* str.split() without arguments: the maximal runs of non-blank characters
RECURSIVE SplitAcc(_, _, _)
SplitAcc(s, cur, acc) ==
    IF s = <<>> THEN (IF cur = <<>> THEN acc ELSE Append(acc, cur))
    ELSE IF Head(s) = Space
         THEN SplitAcc(Tail(s), <<>>, IF cur = <<>> THEN acc ELSE Append(acc, cur))
         ELSE SplitAcc(Tail(s), Append(cur, Head(s)), acc)

Split(s) == SplitAcc(s, <<>>, <<>>)

\* str.strip(): leading and trailing blanks removed
RECURSIVE LStrip(_)
LStrip(s) == IF s # <<>> /\ Head(s) = Space THEN LStrip(Tail(s)) ELSE s

RECURSIVE RStrip(_)
RStrip(s) ==
    IF s # <<>> /\ s[Len(s)] = Space THEN RStrip(SubSeq(s, 1, Len(s) - 1)) ELSE s

Strip(s) == RStrip(LStrip(s))

IsDigit(c) == \E i \in 1..Len(Digits) : Digits[i] = c

DigitVal(c) == (CHOOSE i \in 1..Len(Digits) : Digits[i] = c) - 1

\* does int(tok) return (TRUE) or raise ValueError (FALSE): an optional sign
\* followed by at least one decimal digit
IsInt(tok) ==
    /\ tok # <<>>
    /\ LET body == IF tok[1] \in {"-", "+"} THEN Tail(tok) ELSE tok
       IN  body # <<>> /\ \A i \in 1..Len(body) : IsDigit(body[i])

RECURSIVE NatVal(_)
NatVal(ds) ==
    IF ds = <<>> THEN 0
    ELSE 10 * NatVal(SubSeq(ds, 1, Len(ds) - 1)) + DigitVal(ds[Len(ds)])

\* int(tok) for a tok with IsInt(tok)
IntVal(tok) ==
    IF tok[1] = "-" THEN 0 - NatVal(Tail(tok))
    ELSE IF tok[1] = "+" THEN NatVal(Tail(tok))
    ELSE NatVal(tok)

ParseError(e) == [error |-> e, count |-> 0, prompt |-> <<>>]

\* variant: the limit applied one early, so that 11 becomes 10
ClampAboveTen(n) == IF n > CLAMP_TO THEN CLAMP_TO ELSE n

\* lines 81-82: if count > 11: count = 10
ClampCount(n) == IF n > CLAMP_ABOVE THEN CLAMP_TO ELSE n

\* the (parsed, error) pair of parse_generate_command as one record:
\* error = "none" with the count and the prompt, or error = "usage" (line
\* 74), "range" (line 80), "prompt" (line 90)
parse_generate_command(message_text) ==
    LET parts == Split(Strip(message_text))
    IN  IF Len(parts) < 2 THEN ParseError("usage")
        ELSE IF IsInt(parts[2])
             THEN IF IntVal(parts[2]) < 1 THEN ParseError("range")
                  ELSE LET prompt == Strip(Flatten(From(parts, 2)))
                       IN  IF prompt = <<>> THEN ParseError("prompt")
                           ELSE [error |-> "none",
                                 count |-> ClampCount(IntVal(parts[2])),
                                 prompt |-> prompt]
             ELSE LET prompt == Strip(Flatten(From(parts, 1)))
                  IN  IF prompt = <<>> THEN ParseError("prompt")
                      ELSE [error |-> "none", count |-> 1, prompt |-> prompt]

\* --------------------------------------------------------- is_rate_limited
\* variant: nothing is ever pruned
PruneNothing(log, current_time) == log

\* variant: entries are forgotten after half the window
PruneHalfWindow(log, current_time) ==
    SelectSeq(log, LAMBDA t : 2 * (current_time - t) < TIME_WINDOW)

\* variant: <= where the code has <
PruneInclusive(log, current_time) ==
    SelectSeq(log, LAMBDA t : current_time - t <= TIME_WINDOW)

\* lines 55-58: the timestamps t with current_time - t < TIME_WINDOW
Prune(log, current_time) ==
    SelectSeq(log, LAMBDA t : current_time - t < TIME_WINDOW)

\* variant: > where the code has >=
OverLimitStrict(log) == Len(log) > RATE_LIMIT

\* line 59: the comparison that rejects
OverLimit(log) == Len(log) >= RATE_LIMIT

\* variant: the request is recorded before the comparison, so rejected
\* requests are logged too
is_rate_limited_recording(log, current_time) ==
    LET kept == Prune(log, current_time)
    IN  [limited |-> OverLimit(kept), log |-> Append(kept, current_time)]

\* is_rate_limited(user_id) on the user's log: the returned value and the
\* log it leaves behind
is_rate_limited(log, current_time) ==
    LET kept == Prune(log, current_time)
    IN  IF OverLimit(kept)
        THEN [limited |-> TRUE, log |-> kept]
        ELSE [limited |-> FALSE, log |-> Append(kept, current_time)]

\* ----------------------------------------------------- conversation store
UserTurn(content) == [role |-> "user", content |-> content]

AssistantTurn(content) == [role |-> "assistant", content |-> content]

\* lines 278-287: append the user turn, then keep the last MAX_HISTORY turns
AppendUserTurn(history, content) ==
    LET h == Append(history, UserTurn(content))
    IN  IF Len(h) > MAX_HISTORY THEN LastN(h, MAX_HISTORY) ELSE h

\* lines 307-310: append the assistant turn (no trimming follows)
AppendAssistantTurn(history, content) == Append(history, AssistantTurn(content))

\* -------------------------------------------------------------------- state
VARIABLES
    now,                 \* the value time.time() returns when read
    ticks,               \* clock advances so far
    events,              \* inbound events received so far
    texts,               \* per user: text messages received so far
    user_request_times,  \* line 45: per user, the log of admitted timestamps
    user_conversations,  \* line 177: dict user -> list of turns (lazy keys)
    pc,                  \* position of the running handler
    msg,                 \* the message being handled
    limited,             \* value returned by is_rate_limited for msg
    parsed,              \* value returned by parse_generate_command for msg
    images,              \* line 121: names image_<k> appended so far
    trace,               \* backend and transport calls of this event, in order
    log0,                \* user_request_times when the event was received
    hist0,               \* user_conversations when the event was received
    lastCheck,           \* per user: clock value of the latest admission check
    run,                 \* per user: the admission checks since the log was
                         \* last empty, while they fall inside one TIME_WINDOW
    run0,                \* run when the event was received
    allTurns,            \* per user: every turn ever appended, in order
    admits,              \* per user: the admissions younger than TIME_WINDOW
                         \* at the user's latest check (their clock values)
    ptext,               \* parser specification: the argument text
    presult,             \* parser specification: the result, once computed
    serialized,          \* race specification: is there a lock per user
    checks,              \* race specification: calls of is_rate_limited begun
    wpc,                 \* race specification: per worker, its position
    wuser,               \* race specification: per worker, its user_id
    wtime,               \* race specification: per worker, its current_time
    wkept                \* race specification: per worker, the list that the
                         \* comprehension of lines 55-58 has built

raceVars == <<serialized, checks, wpc, wuser, wtime, wkept>>

vars == <<now, ticks, events, texts, user_request_times, user_conversations,
          pc, msg, limited, parsed, images, trace, log0, hist0, lastCheck,
          run, run0, allTurns, admits, ptext, presult, raceVars>>

Command == "/generate"

\* the /generate messages of the handler specification
GenTexts ==
    { <<Command>>,
      <<Command, Space, "0", Space, "x">>,
      <<Command, Space, "2">>,
      <<Command, Space, "x">>,
      <<Command, Space, "2", Space, "x">>,
      <<Command, Space, "1", "2", Space, "x">> }

Kinds == {"generate", "photo", "text"}

NoMsg == [user |-> 0, kind |-> "none", text |-> <<>>]

NoParse == [error |-> "unparsed", count |-> 0, prompt |-> <<>>]

NoRun == [start |-> -1, verdicts |-> <<>>]

Terminal == {"rejected", "usage_error", "no_images", "delivered", "failed"}

Call(op, ok, arg) == [op |-> op, ok |-> ok, arg |-> arg]

\* user_conversations[u] where the key exists, the empty list where not
History(convs, u) == IF u \in DOMAIN convs THEN convs[u] ELSE <<>>

\* variant: one list shared by all users
SetHistoryShared(convs, u, h) == [v \in Users |-> h]

\* user_conversations[u] = h, creating the key if absent
SetHistory(convs, u, h) ==
    [v \in DOMAIN convs \cup {u} |-> IF v = u THEN h ELSE convs[v]]

\* the telebot worker threads (TeleBot's default pool has two)
Workers == {1, 2}

\* no worker is inside is_rate_limited
RaceIdle ==
    /\ checks = 0
    /\ wpc = [w \in Workers |-> "idle"]
    /\ wuser = [w \in Workers |-> 0]
    /\ wtime = [w \in Workers |-> 0]
    /\ wkept = [w \in Workers |-> <<>>]

Init ==
    /\ now = 0
    /\ ticks = 0
    /\ events = 0
    /\ texts = [u \in Users |-> 0]
    /\ user_request_times = [u \in Users |-> <<>>]
    /\ user_conversations = <<>>
    /\ pc = "idle"
    /\ msg = NoMsg
    /\ limited = FALSE
    /\ parsed = NoParse
    /\ images = <<>>
    /\ trace = <<>>
    /\ log0 = [u \in Users |-> <<>>]
    /\ hist0 = <<>>
    /\ lastCheck = [u \in Users |-> -1]
    /\ run = [u \in Users |-> NoRun]
    /\ run0 = [u \in Users |-> NoRun]
    /\ allTurns = [u \in Users |-> <<>>]
    /\ admits = [u \in Users |-> <<>>]
    /\ serialized = FALSE
    /\ RaceIdle
    /\ ptext = <<>>
    /\ presult = NoParse

\* the text of a user's k-th text message, and the content the chat backend
\* returns for it (with the surrounding blanks that line 304 strips)
TextOf(k) == <<"m", Digits[k + 1]>>

\* the text of user u's k-th text message: no two users send the same text
UserText(u, k) == TextOf(k) \o <<Digits[u + 1]>>

RawReplyTo(text) == <<Space, "r">> \o Tail(text) \o <<Space>>

\* ------------------------------------------------------ observing an event
BackendOps == {"generate", "describe", "chat"}

\* positions in trace of the calls with an op in ops
Calls(ops) == {i \in 1..Len(trace) : trace[i].op \in ops}

CountOp(op) == Cardinality(Calls({op}))

BackendFailed == \E i \in Calls(BackendOps) : ~trace[i].ok

AssistantTurns(h) == {h[i] : i \in {j \in 1..Len(h) : h[j].role = "assistant"}}

Last(s) == s[Len(s)]

\* ------------------------------------------------------------ environment
\* the clock readings an event can arrive at: the clock has not moved since
\* the previous event, or it has advanced by one of Deltas.  The handlers
\* read the clock once, in is_rate_limited, so time that passes while a
\* handler runs shows only at the next event.
Arrival ==
    \/ /\ now' = now
       /\ ticks' = ticks
    \/ /\ ticks < MaxTicks
       /\ \E d \in Deltas : now' = now + d
       /\ ticks' = ticks + 1

\* the dispatcher hands the next message to its handler (lines 95, 191, 257)
ReceiveFrom(users, commands, limit) ==
    /\ pc \in Terminal \cup {"idle"}
    /\ events < limit
    /\ events' = events + 1
    /\ Arrival
    /\ \E u \in users :
         \/ /\ \E t \in commands : msg' = [user |-> u, kind |-> "generate", text |-> t]
            /\ texts' = texts
         \/ /\ msg' = [user |-> u, kind |-> "photo", text |-> <<>>]
            /\ texts' = texts
         \/ /\ msg' = [user |-> u, kind |-> "text", text |-> UserText(u, texts[u] + 1)]
            /\ texts' = [texts EXCEPT ![u] = @ + 1]
    /\ pc' = "received"
    /\ limited' = FALSE
    /\ parsed' = NoParse
    /\ images' = <<>>
    /\ trace' = <<>>
    /\ log0' = user_request_times
    /\ hist0' = user_conversations
    /\ run0' = run
    /\ UNCHANGED <<user_request_times, user_conversations, lastCheck, run,
                   allTurns, admits, ptext, presult, raceVars>>

Receive == ReceiveFrom(Users, GenTexts, MaxEvents)

\* ---------------------------------------------------------- rate limiting
\* the checks of one user since its log was last empty, as long as they all
\* fall inside one TIME_WINDOW
NextRun(r, log, t, admitted) ==
    IF Prune(log, t) = <<>> THEN [start |-> t, verdicts |-> <<admitted>>]
    ELSE IF r.start >= 0 /\ t - r.start < TIME_WINDOW
         THEN [r EXCEPT !.verdicts = Append(@, admitted)]
         ELSE NoRun

\* lines 100, 199, 266: the call is_rate_limited(user_id)
RateCheck ==
    /\ pc = "received"
    /\ LET u == msg.user
           r == is_rate_limited(user_request_times[u], now)
       IN  /\ user_request_times' = [user_request_times EXCEPT ![u] = r.log]
           /\ limited' = r.limited
           /\ lastCheck' = [lastCheck EXCEPT ![u] = now]
           /\ run' = [run EXCEPT
                        ![u] = NextRun(@, user_request_times[u], now, ~r.limited)]
           /\ admits' =
                [admits EXCEPT
                   ![u] = LET recent == SelectSeq(@, LAMBDA a : a > now - TIME_WINDOW)
                          IN  IF r.limited THEN recent ELSE Append(recent, now)]
    /\ pc' = "rate_checked"
    /\ UNCHANGED <<now, ticks, events, texts, user_conversations, msg, parsed,
                   images, trace, log0, hist0, run0, allTurns, ptext, presult,
                   raceVars>>

\* variant: the return after the throttling reply is missing
RateBranchNoReturn ==
    /\ pc = "rate_checked"
    /\ trace' = IF limited
                THEN Append(trace, Call("reply_throttle", TRUE, <<>>))
                ELSE trace
    /\ pc' = "admitted"
    /\ UNCHANGED <<now, ticks, events, texts, user_request_times,
                   user_conversations, msg, limited, parsed, images, log0,
                   hist0, lastCheck, run, run0, allTurns, admits, ptext, presult, raceVars>>

\* lines 100-105, 199-204, 266-271: the throttling reply, or on to the flow
RateBranch ==
    /\ pc = "rate_checked"
    /\ IF limited
       THEN /\ trace' = Append(trace, Call("reply_throttle", TRUE, <<>>))
            /\ pc' = "rejected"
       ELSE /\ trace' = trace
            /\ pc' = "admitted"
    /\ UNCHANGED <<now, ticks, events, texts, user_request_times,
                   user_conversations, msg, limited, parsed, images, log0,
                   hist0, lastCheck, run, run0, allTurns, admits, ptext, presult, raceVars>>

\* --------------------------------------------------- telegram_generate_image
\* lines 108-119: parse; the corrective reply, or the acknowledgment
GenParse ==
    /\ pc = "admitted"
    /\ msg.kind = "generate"
    /\ parsed' = parse_generate_command(msg.text)
    /\ IF parsed'.error # "none"
       THEN /\ trace' = Append(trace, Call("reply_usage", TRUE, <<>>))
            /\ pc' = "usage_error"
       ELSE /\ trace' = Append(trace, Call("reply_ack", TRUE, <<>>))
            /\ pc' = "gen_loop"
    /\ UNCHANGED <<now, ticks, events, texts, user_request_times,
                   user_conversations, msg, limited, images, log0, hist0,
                   lastCheck, run, run0, allTurns, admits, ptext, presult, raceVars>>

\* variant: after a failed call the images generated so far are delivered
GenCallPartial ==
    /\ pc = "gen_loop"
    /\ \E outcome \in {"image", "no_data", "no_b64_json", "raise"} :
         /\ trace' = Append(trace, Call("generate", outcome = "image", <<>>))
         /\ IF outcome = "image"
            THEN /\ images' = Append(images, Len(images) + 1)
                 /\ pc' = IF Len(images') = parsed.count THEN "gen_send"
                                                         ELSE "gen_loop"
            ELSE /\ images' = images
                 /\ pc' = IF images = <<>> THEN "except" ELSE "gen_send"
    /\ UNCHANGED <<now, ticks, events, texts, user_request_times,
                   user_conversations, msg, limited, parsed, log0, hist0,
                   lastCheck, run, run0, allTurns, admits, ptext, presult, raceVars>>

\* variant: a first call that fails is tried again
GenCallRetrying ==
    /\ pc = "gen_loop"
    /\ \E outcome \in {"image", "no_data", "no_b64_json", "raise"} :
         /\ trace' = Append(trace, Call("generate", outcome = "image", <<>>))
         /\ IF outcome = "image"
            THEN /\ images' = Append(images, Len(images) + 1)
                 /\ pc' = IF Len(images') = parsed.count THEN "gen_send"
                                                         ELSE "gen_loop"
            ELSE /\ images' = images
                 /\ pc' = IF Calls(BackendOps) = {} THEN "gen_loop" ELSE "except"
    /\ UNCHANGED <<now, ticks, events, texts, user_request_times,
                   user_conversations, msg, limited, parsed, log0, hist0,
                   lastCheck, run, run0, allTurns, admits, ptext, presult, raceVars>>

\* lines 123-148: one turn of the loop, i = Len(images); the call returns
\* an image, returns no data or no b64_json, or raises
GenCall ==
    /\ pc = "gen_loop"
    /\ \E outcome \in {"image", "no_data", "no_b64_json", "raise"} :
         /\ trace' = Append(trace, Call("generate", outcome = "image", <<>>))
         /\ IF outcome = "image"
            THEN /\ images' = Append(images, Len(images) + 1)
                 /\ pc' = IF Len(images') = parsed.count THEN "gen_send"
                                                         ELSE "gen_loop"
            ELSE /\ images' = images
                 /\ pc' = "except"
    /\ UNCHANGED <<now, ticks, events, texts, user_request_times,
                   user_conversations, msg, limited, parsed, log0, hist0,
                   lastCheck, run, run0, allTurns, admits, ptext, presult, raceVars>>

\* variant: the captions are Image <idx>
AlbumFromZero(imgs) ==
    [k \in 1..Len(imgs) |-> [image |-> imgs[k], caption |-> k - 1]]

\* lines 159-162: each image with the caption Image <idx + 1>
Album(imgs) == [k \in 1..Len(imgs) |-> [image |-> imgs[k], caption |-> k]]

\* lines 150-163: one photo, or one album with the captions Image 1..n
GenSend ==
    /\ pc = "gen_send"
    /\ IF images = <<>>
       THEN /\ trace' = Append(trace, Call("reply_no_images", TRUE, <<>>))
            /\ pc' = "no_images"
       ELSE \E ok \in BOOLEAN :
              /\ trace' = Append(trace,
                              IF parsed.count = 1
                              THEN Call("send_photo", ok, <<images[1]>>)
                              ELSE Call("send_media_group", ok, Album(images)))
              /\ pc' = IF ok THEN "delivered" ELSE "except"
    /\ UNCHANGED <<now, ticks, events, texts, user_request_times,
                   user_conversations, msg, limited, parsed, images, log0,
                   hist0, lastCheck, run, run0, allTurns, admits, ptext, presult, raceVars>>

\* variant: the except clause logs the error and sends nothing
ExceptSilent ==
    /\ pc = "except"
    /\ pc' = "failed"
    /\ UNCHANGED <<now, ticks, events, texts, user_request_times,
                   user_conversations, msg, limited, parsed, images, trace,
                   log0, hist0, lastCheck, run, run0, allTurns, admits, ptext, presult, raceVars>>

\* lines 164-166, 252-254, 315-317: the except clause of the three handlers
Except ==
    /\ pc = "except"
    /\ trace' = Append(trace, Call("reply_error", TRUE, <<>>))
    /\ pc' = "failed"
    /\ UNCHANGED <<now, ticks, events, texts, user_request_times,
                   user_conversations, msg, limited, parsed, images, log0,
                   hist0, lastCheck, run, run0, allTurns, admits, ptext, presult, raceVars>>

\* --------------------------------------------------------- handle_user_photo
\* lines 208-223: fetch the file from the transport and re-encode it
PhotoFetch ==
    /\ pc = "admitted"
    /\ msg.kind = "photo"
    /\ \E ok \in BOOLEAN :
         /\ trace' = Append(trace, Call("download_file", ok, <<>>))
         /\ pc' = IF ok THEN "photo_call" ELSE "except"
    /\ UNCHANGED <<now, ticks, events, texts, user_request_times,
                   user_conversations, msg, limited, parsed, images, log0,
                   hist0, lastCheck, run, run0, allTurns, admits, ptext, presult, raceVars>>

\* variant: the description is stored as an assistant turn
PhotoCallRemembering ==
    /\ pc = "photo_call"
    /\ \E outcome \in {"text", "malformed", "raise"} :
         /\ trace' = Append(trace, Call("describe", outcome = "text", <<>>))
         /\ pc' = IF outcome = "text" THEN "photo_send" ELSE "except"
         /\ user_conversations' =
              IF outcome = "text"
              THEN SetHistory(user_conversations, msg.user,
                              AppendAssistantTurn(
                                  History(user_conversations, msg.user), <<"d">>))
              ELSE user_conversations
    /\ UNCHANGED <<now, ticks, events, texts, user_request_times, msg, limited,
                   parsed, images, log0, hist0, lastCheck, run, run0, allTurns, admits, ptext,
                   presult, raceVars>>

\* lines 226-247: the description request; it returns a description,
\* returns no usable choice, or raises
PhotoCall ==
    /\ pc = "photo_call"
    /\ \E outcome \in {"text", "malformed", "raise"} :
         /\ trace' = Append(trace, Call("describe", outcome = "text", <<>>))
         /\ pc' = IF outcome = "text" THEN "photo_send" ELSE "except"
    /\ UNCHANGED <<now, ticks, events, texts, user_request_times,
                   user_conversations, msg, limited, parsed, images, log0,
                   hist0, lastCheck, run, run0, allTurns, admits, ptext, presult, raceVars>>

\* line 250: the description goes to the user
PhotoSend ==
    /\ pc = "photo_send"
    /\ \E ok \in BOOLEAN :
         /\ trace' = Append(trace, Call("reply_description", ok, <<>>))
         /\ pc' = IF ok THEN "delivered" ELSE "except"
    /\ UNCHANGED <<now, ticks, events, texts, user_request_times,
                   user_conversations, msg, limited, parsed, images, log0,
                   hist0, lastCheck, run, run0, allTurns, admits, ptext, presult, raceVars>>

\* ------------------------------------------------------- handle_user_message
\* lines 273-287: create the history if absent, append the user turn, trim
AppendUser ==
    /\ pc = "admitted"
    /\ msg.kind = "text"
    /\ user_conversations' =
         SetHistory(user_conversations, msg.user,
                    AppendUserTurn(History(user_conversations, msg.user), msg.text))
    /\ allTurns' = [allTurns EXCEPT ![msg.user] = Append(@, UserTurn(msg.text))]
    /\ pc' = "chat_call"
    /\ UNCHANGED <<now, ticks, events, texts, user_request_times, msg, limited,
                   parsed, images, trace, log0, hist0, lastCheck, run, run0,
                   admits, ptext, presult, raceVars>>

\* the history after the backend has answered raw (lines 304-310)
AfterChatReply(history, raw) == AppendAssistantTurn(history, Strip(raw))

\* variant: only the newest turn is sent
ChatRequestNewestOnly(history) == <<history[Len(history)]>>

\* line 293: messages is the stored list itself, nothing before or after it
ChatRequest(history) == history

\* lines 291-310: the chat request with the stored history; on a usable
\* answer the stripped content is appended as the assistant turn
ChatCall ==
    /\ pc = "chat_call"
    /\ \E outcome \in {"text", "malformed", "raise"} :
         /\ trace' = Append(trace, Call("chat", outcome = "text",
                                        ChatRequest(user_conversations[msg.user])))
         /\ IF outcome = "text"
            THEN /\ user_conversations' =
                      [user_conversations EXCEPT
                         ![msg.user] = AfterChatReply(@, RawReplyTo(msg.text))]
                 /\ allTurns' =
                      [allTurns EXCEPT
                         ![msg.user] =
                            Append(@, AssistantTurn(Strip(RawReplyTo(msg.text))))]
                 /\ pc' = "chat_send"
            ELSE /\ user_conversations' = user_conversations
                 /\ allTurns' = allTurns
                 /\ pc' = "except"
    /\ UNCHANGED <<now, ticks, events, texts, user_request_times, msg, limited,
                   parsed, images, log0, hist0, lastCheck, run, run0, admits,
                   ptext, presult, raceVars>>

\* line 313: the reply goes to the user
ChatSend ==
    /\ pc = "chat_send"
    /\ \E ok \in BOOLEAN :
         /\ trace' = Append(trace, Call("send_message", ok, <<>>))
         /\ pc' = IF ok THEN "delivered" ELSE "except"
    /\ UNCHANGED <<now, ticks, events, texts, user_request_times,
                   user_conversations, msg, limited, parsed, images, log0,
                   hist0, lastCheck, run, run0, allTurns, admits, ptext, presult, raceVars>>

\* ---------------------------------------------------------- specifications
\* a step of the running handler
Handle ==
    \/ RateCheck
    \/ RateBranch
    \/ GenParse
    \/ GenCall
    \/ GenSend
    \/ PhotoFetch
    \/ PhotoCall
    \/ PhotoSend
    \/ AppendUser
    \/ ChatCall
    \/ ChatSend
    \/ Except

Next == Receive \/ Handle

Spec == Init /\ [][Next]_vars

\* a handler that has started runs on: every call it makes returns or raises
FairReceive == ReceiveFrom(Users, GenTexts, MaxEventsFair)

FairSpec == Init /\ [][FairReceive \/ Handle]_vars /\ WF_vars(Handle)

\* one user alone, over a longer run: enough events to fill the log, to
\* outlast the window and to fill the conversation history
OneUser == CHOOSE u \in Users : TRUE

OneUserReceive ==
    ReceiveFrom({OneUser}, {<<Command, Space, "x">>}, MaxEventsOneUser)

OneUserSpec == Init /\ [][OneUserReceive \/ Handle]_vars

\* the parser alone, on every argument text of at most MaxLen characters
RECURSIVE TextsUpTo(_)
TextsUpTo(n) ==
    IF n = 0 THEN {<<>>}
    ELSE LET shorter == TextsUpTo(n - 1)
         IN  shorter \cup {Append(t, c) : t \in shorter, c \in Alphabet}

ParseInit ==
    /\ now = 0 /\ ticks = 0 /\ events = 0
    /\ texts = [u \in Users |-> 0]
    /\ user_request_times = [u \in Users |-> <<>>]
    /\ user_conversations = <<>>
    /\ pc = "parse"
    /\ msg = NoMsg /\ limited = FALSE /\ parsed = NoParse /\ images = <<>>
    /\ trace = <<>>
    /\ log0 = [u \in Users |-> <<>>]
    /\ hist0 = <<>>
    /\ lastCheck = [u \in Users |-> -1]
    /\ run = [u \in Users |-> NoRun]
    /\ run0 = [u \in Users |-> NoRun]
    /\ allTurns = [u \in Users |-> <<>>]
    /\ admits = [u \in Users |-> <<>>]
    /\ serialized = FALSE
    /\ RaceIdle
    /\ ptext \in TextsUpTo(MaxLen)
    /\ presult = NoParse

ParseStep ==
    /\ pc = "parse"
    /\ presult' = parse_generate_command(<<Command>> \o ptext)
    /\ pc' = "parsed"
    /\ UNCHANGED <<now, ticks, events, texts, user_request_times,
                   user_conversations, msg, limited, parsed, images, trace,
                   log0, hist0, lastCheck, run, run0, allTurns, admits, ptext, raceVars>>

ParseSpec == ParseInit /\ [][ParseStep]_vars

\* ------------------------------------------------------------------ claims
\* C1: after any sequence of admission checks at non-decreasing clock
\* values, a user's log never holds more than RATE_LIMIT timestamps, and
\* each of them lies within the trailing TIME_WINDOW of the user's latest
\* check.
C1_LogWithinWindow ==
    \A u \in Users :
        /\ Len(user_request_times[u]) <= RATE_LIMIT
        /\ \A i \in 1..Len(user_request_times[u]) :
              /\ user_request_times[u][i] <= lastCheck[u]
              /\ lastCheck[u] - user_request_times[u][i] < TIME_WINDOW

\* a check that pruned the oldest timestamp and left the log full
C1_Witness ==
    /\ pc = "rate_checked"
    /\ Len(user_request_times[msg.user]) = RATE_LIMIT
    /\ Len(log0[msg.user]) = RATE_LIMIT
    /\ now - log0[msg.user][1] >= TIME_WINDOW

\* C2: the length of user_conversations[user] is at most MAX_HISTORY in
\* every reachable state, the state right after the assistant turn has
\* been appended included.
C2_HistoryAtMostMax ==
    \A u \in DOMAIN user_conversations :
        Len(user_conversations[u]) <= MAX_HISTORY

\* C3: starting from an empty log, the checks of a run that stays inside
\* one TIME_WINDOW are admitted for the first RATE_LIMIT of them and
\* rejected for every later one; a check made more than TIME_WINDOW after
\* the user's last admission is admitted.
C3_FirstFiveThenReject ==
    /\ \A u \in Users :
          run[u].start >= 0 =>
             \A k \in 1..Len(run[u].verdicts) :
                 run[u].verdicts[k] = (k <= RATE_LIMIT)
    /\ pc = "rate_checked" /\ log0[msg.user] # <<>>
         /\ now - Last(log0[msg.user]) > TIME_WINDOW
       => ~limited

\* six checks in one window gave five admits and a rejection; the check
\* after the window has passed is admitted
C3_Witness ==
    /\ pc = "rate_checked"
    /\ run0[msg.user].verdicts = <<TRUE, TRUE, TRUE, TRUE, TRUE, FALSE>>
    /\ now - Last(log0[msg.user]) > TIME_WINDOW
    /\ ~limited

\* the histories of all users are what they were when the event arrived
HistoriesUntouched ==
    \A u \in Users : History(user_conversations, u) = History(hist0, u)

\* C4: when the backend call of an admitted event fails, in any flow, no
\* assistant turn is appended to the user's history and the event ends
\* with exactly one error reply.
C4_FailureOneErrorReply ==
    BackendFailed =>
        /\ AssistantTurns(History(user_conversations, msg.user))
              \subseteq AssistantTurns(History(hist0, msg.user))
        /\ pc \in {"except", "failed"}
        /\ CountOp("reply_error") = (IF pc = "failed" THEN 1 ELSE 0)

\* a text message whose chat call failed, from a user whose history already
\* holds an assistant turn, has ended
C4_Witness ==
    /\ pc = "failed"
    /\ msg.kind = "text"
    /\ BackendFailed
    /\ AssistantTurns(History(hist0, msg.user)) # {}

\* C5: when the chat backend call of an admitted text message fails, the
\* user's history after the event equals the history before the event.
C5_FailureLeavesHistory ==
    pc = "failed" /\ msg.kind = "text" /\ BackendFailed => HistoriesUntouched

\* C6: a malformed /generate command mutates no state: the request log and
\* the histories after the event are those before it.
C6_UsageErrorMutatesNothing ==
    pc = "usage_error" =>
        /\ user_request_times = log0
        /\ HistoriesUntouched

\* C7: when the admission check rejects an event, in any flow, the event
\* ends there: exactly one throttling reply, no backend call, no user turn
\* appended.
C7_RejectedEndsThere ==
    limited /\ pc # "rate_checked" =>
        /\ pc = "rejected"
        /\ trace = <<Call("reply_throttle", TRUE, <<>>)>>
        /\ HistoriesUntouched
        /\ ~ENABLED Handle

\* a text message of a user with a history has been rejected
C7_Witness ==
    /\ pc = "rejected"
    /\ msg.kind = "text"
    /\ History(user_conversations, msg.user) # <<>>

\* C10: handling a /generate event or a photo event, whatever its outcome,
\* leaves user_conversations unchanged for all users.
C10_ImageFlowsLeaveHistory ==
    msg.kind \in {"generate", "photo"} => user_conversations = hist0

\* a /generate event has been delivered to a user who has a history
C10_Witness ==
    /\ pc = "delivered"
    /\ msg.kind = "generate"
    /\ History(user_conversations, msg.user) # <<>>

\* the parsed text of the parser specification
ParsedText == <<Command>> \o ptext

\* C8: on the whitespace-split tokens: fewer than 2 tokens give a usage
\* error; an integer token[1] = n gives a range error if n < 1, count 10
\* if n > 11, count n if 1 <= n <= 11 (11 stays 11), with the prompt
\* tokens[2:] joined by single blanks; any other token[1] gives count 1
\* with the prompt tokens[1:]; an empty prompt gives an invalid-prompt
\* error.  Every successful result has 1 <= count <= 11 and a non-empty
\* prompt.
C8_ParseTable ==
    pc = "parsed" =>
        LET parts == Split(ParsedText)
            r == presult
        IN  /\ Len(parts) < 2 => r.error = "usage"
            /\ Len(parts) >= 2 /\ IsInt(parts[2]) =>
                  LET n == IntVal(parts[2])
                      rest == From(parts, 2)
                  IN  /\ n < 1 => r.error = "range"
                      /\ n >= 1 /\ rest = <<>> => r.error = "prompt"
                      /\ n >= 1 /\ rest # <<>> =>
                            /\ r.error = "none"
                            /\ r.prompt = Flatten(rest)
                            /\ n > 11 => r.count = 10
                            /\ n <= 11 => r.count = n
            /\ Len(parts) >= 2 /\ ~IsInt(parts[2]) =>
                  /\ r.error = "none"
                  /\ r.count = 1
                  /\ r.prompt = Flatten(From(parts, 1))
            /\ r.error = "none" =>
                  /\ r.count >= 1
                  /\ r.count <= 11
                  /\ r.prompt # <<>>
            /\ ptext = <<Space, "1", "1", Space, "x">> =>
                  r = [error |-> "none", count |-> 11, prompt |-> <<"x">>]
            /\ ptext = <<Space, "1", "2", Space, "x">> =>
                  r = [error |-> "none", count |-> 10, prompt |-> <<"x">>]
            /\ ptext = <<Space, "2", Space, "x", "x">> =>
                  r = [error |-> "none", count |-> 2, prompt |-> <<"x", "x">>]
            /\ ptext = <<Space, "x", Space, Space, "x">> =>
                  r = [error |-> "none", count |-> 1,
                       prompt |-> <<"x", Space, "x">>]
            /\ ptext = <<Space, "0", Space, "x">> => r.error = "range"
            /\ ptext = <<Space, "-", "1", Space, "x">> => r.error = "range"
            /\ ptext = <<Space, "2", Space>> => r.error = "prompt"
            /\ ptext = <<>> => r.error = "usage"

\* "/generate 11 x" has been parsed: the count is 11, not 10
C8_Witness ==
    /\ pc = "parsed"
    /\ ptext = <<Space, "1", "1", Space, "x">>
    /\ presult.count = 11

\* the state of the running event in the terms of the state machine
\* Received -> RateChecked -> {Rejected | Admitted -> BackendInvoked ->
\* {Delivered | Failed}}
Phase ==
    CASE pc \in {"idle", "parse", "parsed"} -> "Idle"
      [] pc = "received" -> "Received"
      [] pc = "rate_checked" -> "RateChecked"
      [] pc = "rejected" -> "Rejected"
      [] pc = "usage_error" -> "UsageRejected"
      [] pc = "no_images" -> "NoImages"
      [] pc = "delivered" -> "Delivered"
      [] pc = "failed" -> "Failed"
      [] OTHER -> IF Calls(BackendOps) = {} THEN "Admitted"
                                            ELSE "BackendInvoked"

Ended == {"Rejected", "UsageRejected", "NoImages", "Delivered", "Failed"}

\* the steps of the state machine as the specification draws it
DrawnSteps ==
    { <<"Received", "RateChecked">>,
      <<"RateChecked", "Rejected">>,
      <<"RateChecked", "Admitted">>,
      <<"Admitted", "BackendInvoked">>,
      <<"BackendInvoked", "Delivered">>,
      <<"BackendInvoked", "Failed">> }

\* the next event starts once the previous one has ended
NewEvent == (Phase \in Ended \cup {"Idle"}) /\ Phase' = "Received"

\* a failed backend call is the last backend call of its event
NoRetry ==
    \A i \in Calls(BackendOps) :
        ~trace[i].ok => \A j \in Calls(BackendOps) : j <= i

\* every event that has arrived ends
EveryEventEnds == (Phase = "Received") ~> (Phase \in Ended)

\* C9 as stated: every event follows the drawn steps and ends in one of
\* Rejected, Delivered, Failed; no backend call is retried.
C9_DrawnMachine ==
    /\ [][Phase' # Phase => NewEvent \/ <<Phase, Phase'>> \in DrawnSteps]_vars
    /\ [](Phase \in Ended => Phase \in {"Rejected", "Delivered", "Failed"})
    /\ []NoRetry
    /\ EveryEventEnds

\* C9 amended: every event follows Received -> RateChecked -> {Rejected |
\* Admitted -> {UsageRejected | Failed | BackendInvoked -> {Delivered |
\* Failed}}} and ends in exactly one of Rejected, UsageRejected, Delivered,
\* Failed; Admitted -> UsageRejected is taken by a malformed /generate
\* only, Admitted -> Failed by a photo whose fetch failed only; no backend
\* call is retried.
C9_Machine ==
    /\ [][Phase' # Phase =>
            \/ NewEvent
            \/ <<Phase, Phase'>> \in DrawnSteps
            \/ /\ <<Phase, Phase'>> = <<"Admitted", "UsageRejected">>
               /\ msg.kind = "generate"
               /\ parsed'.error # "none"
            \/ /\ <<Phase, Phase'>> = <<"Admitted", "Failed">>
               /\ msg.kind = "photo"
               /\ trace' = <<Call("download_file", FALSE, <<>>),
                             Call("reply_error", TRUE, <<>>)>>]_vars
    /\ [](Phase \in Ended =>
            Phase \in {"Rejected", "UsageRejected", "Delivered", "Failed"})
    /\ []NoRetry
    /\ EveryEventEnds

\* a /generate for two images whose second backend call failed has ended:
\* one error reply, no third call
C9_Witness ==
    /\ pc = "failed"
    /\ msg.kind = "generate"
    /\ Cardinality(Calls(BackendOps)) = 2
    /\ BackendFailed

Range(s) == {s[i] : i \in 1..Len(s)}

\* ------------------------------------------- is_rate_limited, interleaved
\* Two worker threads run is_rate_limited statement by statement on the
\* shared user_request_times, for events of one user.  With serialized a
\* worker enters only when no other worker is inside for the same user
\* (handling one event of a user at a time); without it the workers
\* interleave freely, as the code has no lock.
handlerState ==
    <<events, texts, user_conversations, pc, msg, limited, parsed, images,
      trace, log0, hist0, lastCheck, run, run0, allTurns, admits, ptext,
      presult>>

RaceInit ==
    /\ now = 0
    /\ ticks = 0
    /\ events = 0
    /\ texts = [u \in Users |-> 0]
    /\ user_request_times = [u \in Users |-> <<>>]
    /\ user_conversations = <<>>
    /\ pc = "idle"
    /\ msg = NoMsg /\ limited = FALSE /\ parsed = NoParse /\ images = <<>>
    /\ trace = <<>>
    /\ log0 = [u \in Users |-> <<>>]
    /\ hist0 = <<>>
    /\ lastCheck = [u \in Users |-> -1]
    /\ run = [u \in Users |-> NoRun]
    /\ run0 = [u \in Users |-> NoRun]
    /\ allTurns = [u \in Users |-> <<>>]
    /\ admits = [u \in Users |-> <<>>]
    /\ serialized \in BOOLEAN
    /\ RaceIdle
    /\ ptext = <<>>
    /\ presult = NoParse

\* worker w has left is_rate_limited
Returned(w) ==
    /\ wpc' = [wpc EXCEPT ![w] = "idle"]
    /\ wuser' = [wuser EXCEPT ![w] = 0]
    /\ wtime' = [wtime EXCEPT ![w] = 0]

\* line 54: a handler calls is_rate_limited(u) and reads the clock
RaceEnter(w) ==
    /\ wpc[w] = "idle"
    /\ checks < MaxRaceChecks
    /\ checks' = checks + 1
    /\ \E u \in {OneUser} :
         /\ serialized =>
               \A v \in Workers \ {w} : wpc[v] = "idle" \/ wuser[v] # u
         /\ wuser' = [wuser EXCEPT ![w] = u]
    /\ wtime' = [wtime EXCEPT ![w] = now]
    /\ wpc' = [wpc EXCEPT ![w] = "prune"]
    /\ UNCHANGED <<now, ticks, user_request_times, serialized, wkept,
                   handlerState>>

\* lines 56-58: the comprehension builds the pruned list from the log
RacePrune(w) ==
    /\ wpc[w] = "prune"
    /\ wkept' = [wkept EXCEPT
                   ![w] = Prune(user_request_times[wuser[w]], wtime[w])]
    /\ wpc' = [wpc EXCEPT ![w] = "store"]
    /\ UNCHANGED <<now, ticks, user_request_times, serialized, checks, wuser,
                   wtime, handlerState>>

\* line 55: the pruned list replaces the log
RaceStore(w) ==
    /\ wpc[w] = "store"
    /\ user_request_times' =
         [user_request_times EXCEPT ![wuser[w]] = wkept[w]]
    /\ wkept' = [wkept EXCEPT ![w] = <<>>]
    /\ wpc' = [wpc EXCEPT ![w] = "compare"]
    /\ UNCHANGED <<now, ticks, serialized, checks, wuser, wtime,
                   handlerState>>

\* variant: the comparison never rejects
RaceCompareAdmitting(w) ==
    /\ wpc[w] = "compare"
    /\ wpc' = [wpc EXCEPT ![w] = "append"]
    /\ UNCHANGED <<wuser, wtime>>
    /\ UNCHANGED <<now, ticks, user_request_times, serialized, checks, wkept,
                   handlerState>>

\* lines 59-60: the length of the log as it is now decides
RaceCompare(w) ==
    /\ wpc[w] = "compare"
    /\ IF OverLimit(user_request_times[wuser[w]])
       THEN Returned(w)
       ELSE /\ wpc' = [wpc EXCEPT ![w] = "append"]
            /\ UNCHANGED <<wuser, wtime>>
    /\ UNCHANGED <<now, ticks, user_request_times, serialized, checks, wkept,
                   handlerState>>

\* lines 61-62: the clock reading of line 54 is appended to the log
RaceAppend(w) ==
    /\ wpc[w] = "append"
    /\ user_request_times' =
         [user_request_times EXCEPT ![wuser[w]] = Append(@, wtime[w])]
    /\ Returned(w)
    /\ UNCHANGED <<now, ticks, serialized, checks, wkept, handlerState>>

\* time passes while the workers run
RaceTick ==
    /\ ticks < MaxTicks
    /\ ticks' = ticks + 1
    /\ \E d \in Deltas : now' = now + d
    /\ UNCHANGED <<user_request_times, raceVars, handlerState>>

RaceStep(w) ==
    \/ RaceEnter(w)
    \/ RacePrune(w)
    \/ RaceStore(w)
    \/ RaceCompare(w)
    \/ RaceAppend(w)

RaceNext == RaceTick \/ \E w \in Workers : RaceStep(w)

RaceSpec == RaceInit /\ [][RaceNext]_vars

\* C14: handling two events of one user without serialization is a race on
\* user_request_times: interleaved steps of is_rate_limited reach a log
\* with more than RATE_LIMIT timestamps inside one TIME_WINDOW.  When the
\* handling is serialized per user the log keeps at most RATE_LIMIT
\* timestamps, in clock order and less than TIME_WINDOW apart.
C14_SerializedKeepsBound ==
    serialized =>
        \A u \in Users :
            /\ Len(user_request_times[u]) <= RATE_LIMIT
            /\ \A i, j \in 1..Len(user_request_times[u]) :
                  i <= j =>
                     /\ user_request_times[u][i] <= user_request_times[u][j]
                     /\ user_request_times[u][j] - user_request_times[u][i]
                            < TIME_WINDOW

\* without serialization two workers have both admitted a request of one
\* user whose log then holds more than RATE_LIMIT timestamps, all less
\* than TIME_WINDOW apart
C14_Witness ==
    /\ ~serialized
    /\ \E u \in Users :
          /\ Len(user_request_times[u]) > RATE_LIMIT
          /\ \A i, j \in 1..Len(user_request_times[u]) :
                user_request_times[u][j] - user_request_times[u][i]
                    < TIME_WINDOW

\* C11: handling an event of user A, in any flow and with any outcome,
\* leaves the request log and the history of every other user B unchanged,
\* and the history sent to the backend for A holds only turns that were
\* inserted for A.
C11_OtherUsersUntouched ==
    msg.kind # "none" =>
        /\ \A v \in Users \ {msg.user} :
              /\ user_request_times[v] = log0[v]
              /\ History(user_conversations, v) = History(hist0, v)
        /\ \A i \in Calls({"chat"}) :
              \A j \in 1..Len(trace[i].arg) :
                  /\ trace[i].arg[j] \in Range(allTurns[msg.user])
                  /\ \A v \in Users \ {msg.user} :
                        trace[i].arg[j] \notin Range(allTurns[v])

\* a text message of a user with a history has been answered while another
\* user has a log and a history
C11_Witness ==
    /\ pc = "delivered"
    /\ msg.kind = "text"
    /\ History(hist0, msg.user) # <<>>
    /\ \E v \in Users \ {msg.user} :
          /\ user_request_times[v] # <<>>
          /\ History(user_conversations, v) # <<>>

\* C12: image generation is all-or-nothing.  If any of the backend calls of
\* a /generate event returns no data, returns an entry without b64_json or
\* raises, then no photo and no album is delivered and the event ends with
\* the error reply.
C12_AllOrNothing ==
    (msg.kind = "generate" /\ \E i \in Calls({"generate"}) : ~trace[i].ok) =>
        /\ CountOp("send_photo") = 0
        /\ CountOp("send_media_group") = 0
        /\ pc \in {"except", "failed"}
        /\ pc = "failed" =>
              /\ Last(trace).op = "reply_error"
              /\ CountOp("reply_error") = 1

\* a /generate event ended with the error reply after at least one image
\* had been generated
C12_Witness ==
    /\ pc = "failed"
    /\ msg.kind = "generate"
    /\ images # <<>>
    /\ ~Last(SubSeq(trace, 1, Len(trace) - 1)).ok
    /\ Last(trace).op = "reply_error"

\* the stored history of the sender when the chat request is built: the
\* history at arrival with the new user turn at the end, cut to its last
\* MAX_HISTORY turns
SnapshotAtRequest ==
    LET h == History(hist0, msg.user) \o <<[role |-> "user", content |-> msg.text]>>
    IN  SubSeq(h, IF Len(h) > MAX_HISTORY THEN Len(h) - MAX_HISTORY + 1 ELSE 1,
               Len(h))

\* C13 as stated: the chat request for an admitted text message is a fixed
\* system preamble followed by the stored history snapshot, which ends
\* with the user turn just appended, in order.
C13_PreambleThenHistory ==
    \A i \in Calls({"chat"}) :
        /\ trace[i].arg # <<>>
        /\ trace[i].arg[1].role = "system"
        /\ Tail(trace[i].arg) = SnapshotAtRequest

\* C13: the chat request for an admitted text message is exactly the stored
\* history snapshot, which ends with the user turn just appended, in
\* order; no system turn precedes it.
C13_RequestIsHistory ==
    \A i \in Calls({"chat"}) :
        /\ trace[i].arg = SnapshotAtRequest
        /\ Last(trace[i].arg) = UserTurn(msg.text)
        /\ \A j \in 1..Len(trace[i].arg) : trace[i].arg[j].role # "system"

\* a chat request has been sent for a user whose history was full, so that
\* the snapshot lost its oldest turn
C13_Witness ==
    /\ msg.kind = "text"
    /\ Calls({"chat"}) # {}
    /\ Len(History(hist0, msg.user)) >= MAX_HISTORY
    /\ Len(trace[1].arg) = MAX_HISTORY

\* h is the end of all: the last Len(h) elements, in the same order
IsSuffix(h, all) ==
    /\ Len(h) <= Len(all)
    /\ \A i \in 1..Len(h) : h[i] = all[Len(all) - Len(h) + i]

\* the history of every user is the end of the sequence of turns appended
\* for that user
HistoryIsSuffix ==
    \A u \in Users : IsSuffix(History(user_conversations, u), allTurns[u])

\* C15: eviction from the history is FIFO and order-preserving: the history
\* of a user is a contiguous suffix of the turns ever appended for that
\* user, in append order, and since trimming follows every append it is the
\* suffix of the last MAX_HISTORY turns.
C15_TrimmedSuffix ==
    /\ HistoryIsSuffix
    /\ \A u \in Users :
          Len(History(user_conversations, u)) =
              IF Len(allTurns[u]) > MAX_HISTORY THEN MAX_HISTORY
                                                ELSE Len(allTurns[u])

\* the entries of the log at arrival that are younger than TIME_WINDOW
PrunedAtArrival ==
    LET old == log0[msg.user]
        young == {i \in 1..Len(old) : old[i] > now - TIME_WINDOW}
    IN  IF young = {} THEN <<>>
        ELSE SubSeq(old, CHOOSE i \in young : \A j \in young : i <= j, Len(old))

\* C16: the admission check either rejects and leaves the log as the pruned
\* log, with no entry for the new request, or admits and leaves the pruned
\* log followed by exactly one new entry, equal to now.
C16_CheckEffect ==
    pc = "rate_checked" =>
        /\ limited => user_request_times[msg.user] = PrunedAtArrival
        /\ ~limited =>
              /\ Len(user_request_times[msg.user]) = Len(PrunedAtArrival) + 1
              /\ SubSeq(user_request_times[msg.user], 1, Len(PrunedAtArrival))
                    = PrunedAtArrival
              /\ Last(user_request_times[msg.user]) = now

\* a check made later than the first entry of a full log has rejected
C16_Witness ==
    /\ pc = "rate_checked"
    /\ limited
    /\ Len(log0[msg.user]) = RATE_LIMIT
    /\ now > log0[msg.user][1]
    /\ user_request_times[msg.user] = log0[msg.user]

\* the timestamps of the log at arrival that the check has kept
KeptByCheck ==
    {log0[msg.user][i] : i \in 1..Len(log0[msg.user])}
        \cap {user_request_times[msg.user][i] :
                  i \in 1..Len(user_request_times[msg.user])}

\* C17 as stated: the prune step keeps a timestamp t iff now - t <=
\* TIME_WINDOW, so a timestamp exactly TIME_WINDOW old is still in the log.
C17_KeepsUpToWindow ==
    pc = "rate_checked" =>
        \A i \in 1..Len(log0[msg.user]) :
            LET t == log0[msg.user][i]
            IN  t < now => (t \in KeptByCheck <=> now - t <= TIME_WINDOW)

\* C17: the prune step keeps a timestamp t iff now - t < TIME_WINDOW; a
\* timestamp exactly TIME_WINDOW old is removed and no longer counts.
C17_KeepsBelowWindow ==
    pc = "rate_checked" =>
        \A i \in 1..Len(log0[msg.user]) :
            LET t == log0[msg.user][i]
            IN  t < now => (t \in KeptByCheck <=> now - t < TIME_WINDOW)

\* a check has met a timestamp exactly TIME_WINDOW old and one younger
C17_Witness ==
    /\ pc = "rate_checked"
    /\ \E i \in 1..Len(log0[msg.user]) : now - log0[msg.user][i] = TIME_WINDOW
    /\ \E i \in 1..Len(log0[msg.user]) :
          /\ log0[msg.user][i] < now
          /\ now - log0[msg.user][i] < TIME_WINDOW

\* C18: for an admitted, well-formed /generate with count n the
\* acknowledgement is sent before the first backend call; when all calls
\* succeed there are exactly n of them, followed by exactly one delivery:
\* one photo if n = 1, otherwise one album of exactly n images captioned
\* 1..n in generation order.
C18_AckCallsDelivery ==
    msg.kind = "generate" =>
        /\ \A i \in Calls({"generate"}) :
              /\ i > 1
              /\ trace[1].op = "reply_ack"
              /\ i <= parsed.count + 1
        /\ CountOp("send_photo") + CountOp("send_media_group") <= 1
        /\ pc = "delivered" =>
              LET n == parsed.count
                  sent == trace[n + 2]
              IN  /\ Len(trace) = n + 2
                  /\ \A k \in 2..(n + 1) :
                        trace[k].op = "generate" /\ trace[k].ok
                  /\ sent.ok
                  /\ n = 1 => sent.op = "send_photo" /\ Len(sent.arg) = 1
                  /\ n # 1 =>
                        /\ sent.op = "send_media_group"
                        /\ Len(sent.arg) = n
                        /\ \A k \in 1..n :
                              sent.arg[k] = [image |-> images[k], caption |-> k]
                        /\ \A k \in 1..n : images[k] = k

\* an album of CLAMP_TO images has been delivered for a count above
\* CLAMP_ABOVE
C18_Witness ==
    /\ pc = "delivered"
    /\ msg.kind = "generate"
    /\ parsed.count = CLAMP_TO
    /\ Last(trace).op = "send_media_group"

\* the admissions of user u in the window (t - TIME_WINDOW, t]
AdmittedInWindow(u, t) ==
    {j \in 1..Len(admits[u]) :
        admits[u][j] > t - TIME_WINDOW /\ admits[u][j] <= t}

\* C19: for every user and every instant t at most RATE_LIMIT requests are
\* admitted in (t - TIME_WINDOW, t], the admissions themselves counted.
\* (The count is largest in a window that ends at an admission, and at that
\* moment admits holds every admission of the window; those windows and the
\* one ending now are the ones compared.)
C19_AdmissionsPerWindow ==
    \A u \in Users :
        /\ Cardinality(AdmittedInWindow(u, now)) <= RATE_LIMIT
        /\ \A i \in 1..Len(admits[u]) :
              Cardinality(AdmittedInWindow(u, admits[u][i])) <= RATE_LIMIT

\* a request has been rejected with RATE_LIMIT admissions in the window,
\* made at different instants
C19_Witness ==
    /\ pc = "rate_checked"
    /\ limited
    /\ admits[msg.user][1] < now
    /\ Cardinality(AdmittedInWindow(msg.user, now)) = RATE_LIMIT

\* C20: every assistant turn in a history was delivered to the user: when
\* the sending of the reply has failed and the event has ended with the
\* error reply, the assistant turn of that event is not in the history.
C20_NoUndeliveredTurn ==
    ( /\ msg.kind = "text"
      /\ pc = "failed"
      /\ \E i \in Calls({"send_message"}) : ~trace[i].ok )
    => AssistantTurn(Strip(RawReplyTo(msg.text)))
           \notin Range(History(user_conversations, msg.user))

====
